---- MODULE Spec2Model ----
(***************************************************************************)
(* Model of premali/lib/program.c: the tagged-chunk stream parsers, the    *)
(* table-to-symbol conversion, the two instruction-word patch passes and   *)
(* the vertex / fragment shader attach pipelines.                          *)
(*                                                                         *)
(* A 32-bit word is a function from bit position 0..31 to {0,1}, so that   *)
(* the C shifts and masks are modelled bit by bit and no value leaves the  *)
(* integer range of the model checker.                                     *)
(***************************************************************************)
EXTENDS Integers, Sequences, FiniteSets, TLC

VARIABLES hist, ops, inp, phase, out, state, call, ncalls

patchVars == <<hist, ops>>
parseVars == <<inp, phase, out>>
attachVars == <<state, call, ncalls>>
vars == <<hist, ops, inp, phase, out, state, call, ncalls>>

(***************************************************************************)
(* Bounds of the model.                                                    *)
(***************************************************************************)
\* instructions in a machine-code segment
MaxInstr == 2
\* patch passes applied to one segment
MaxPasses == 2

(***************************************************************************)
(* 32-bit words.                                                           *)
(***************************************************************************)
Bits == 0..31

Pow2(n) == 2 ^ n

\* the word holding the non-negative int n (n < 2^31)
W(n) == [b \in Bits |-> IF b = 31 THEN 0 ELSE (n \div Pow2(b)) % 2]

BitAnd(x, y) == [b \in Bits |-> IF x[b] = 1 /\ y[b] = 1 THEN 1 ELSE 0]

BitOr(x, y) == [b \in Bits |-> IF x[b] = 1 \/ y[b] = 1 THEN 1 ELSE 0]

BitNot(x) == [b \in Bits |-> 1 - x[b]]

\* x << n on 32 bits (bits shifted out at the top are lost)
Shl(x, n) == [b \in Bits |-> IF b >= n THEN x[b - n] ELSE 0]

\* x >> n on an unsigned word, or on an int whose sign bit is clear
Shr(x, n) == [b \in Bits |-> IF b + n <= 31 THEN x[b + n] ELSE 0]

IsZero(x) == \A b \in Bits : x[b] = 0

(***************************************************************************)
(* vertex_shader_attributes_patch                                          *)
(***************************************************************************)
\* if (!(tmp & 0x10)) continue;
AttributeAlwaysPresent(tmp) == TRUE

AttributePresent(tmp) == ~IsZero(BitAnd(tmp, W(16)))

\* if (!tmp) tmp = 1; else tmp = 0;
AttributeSlotRemapKeepHigh(tmp) ==
    IF IsZero(tmp) THEN W(1) ELSE IF tmp = W(1) THEN W(0) ELSE tmp

AttributeSlotRemapInverted(tmp) == IF IsZero(tmp) THEN W(0) ELSE W(1)

AttributeSlotRemap(tmp) == IF IsZero(tmp) THEN W(1) ELSE W(0)

\* the body of the loop, on instruction ins = <<w0, w1, w2, w3>>
AttributesPatchInstr(ins) ==
    LET tmp == BitAnd(Shr(ins[2], 26), W(31)) IN
    IF ~AttributePresent(tmp)
    THEN ins
    ELSE LET slot    == BitAnd(tmp, W(15))
             cleared == BitAnd(ins[2], BitNot(Shl(W(15), 26)))
             new     == AttributeSlotRemap(slot)
         IN  [ins EXCEPT ![2] = BitOr(cleared, Shl(new, 26))]

\* for (i = 0; i < size; i++) over the whole segment
vertex_shader_attributes_patch(shader) ==
    [i \in 1..Len(shader) |-> AttributesPatchInstr(shader[i])]

(***************************************************************************)
(* vertex_shader_varyings_patch                                            *)
(***************************************************************************)
\* first field: if (!tmp) tmp = 1; else tmp = 0;
VaryingSlotRemap(tmp) == IF IsZero(tmp) THEN W(1) ELSE W(0)

\* second (cross-word) field: if (!tmp) tmp = 1; else tmp = 0;
VaryingCrossSlotRemapInverted(tmp) == IF IsZero(tmp) THEN W(0) ELSE W(1)

VaryingCrossSlotRemap(tmp) == IF IsZero(tmp) THEN W(1) ELSE W(0)

\* the field inside the third word
VaryingsPatchInWord(ins) ==
    LET tmp == BitAnd(Shr(ins[3], 26), W(31)) IN
    IF IsZero(BitAnd(tmp, W(16)))
    THEN ins
    ELSE LET slot    == BitAnd(tmp, W(15))
             cleared == BitAnd(ins[3], BitNot(Shl(W(15), 26)))
             new     == VaryingSlotRemap(slot)
         IN  [ins EXCEPT ![3] = BitOr(cleared, Shl(new, 26))]

\* the field straddling the third and the fourth word
VaryingsPatchCrossWord(ins) ==
    LET tmp == BitOr(BitAnd(Shr(ins[3], 31), W(1)),
                     BitAnd(Shl(ins[4], 1), W(30)))
    IN
    IF IsZero(BitAnd(tmp, W(16)))
    THEN ins
    ELSE LET slot == BitAnd(tmp, W(15))
             c3   == BitAnd(ins[3], BitNot(Shl(W(1), 31)))
             c4   == BitAnd(ins[4], BitNot(W(7)))
             new  == VaryingCrossSlotRemap(slot)
         IN  [ins EXCEPT ![3] = BitOr(c3, Shl(new, 31)),
                         ![4] = BitOr(c4, Shr(new, 1))]

VaryingsPatchInstr(ins) == VaryingsPatchCrossWord(VaryingsPatchInWord(ins))

vertex_shader_varyings_patch(shader) ==
    [i \in 1..Len(shader) |-> VaryingsPatchInstr(shader[i])]

(***************************************************************************)
(* Machine-code segments the patch passes are applied to.                  *)
(***************************************************************************)
\* bits of an instruction outside the three slot fields: alternating, one
\* way or the other, so that every such bit is clear in one filling and
\* set in the other
Fills == {"even", "odd"}

FillBit(fill, w, b) == IF fill = "even" THEN (w + b) % 2 ELSE 1 - ((w + b) % 2)

\* 5-bit field values: presence flag in bit 4, slot in bits 0..3
FieldVals == 0..31

\* field values used for the fields a case is not about
FewVals == {1, 16}

FieldBit(f, k) == (f \div Pow2(k)) % 2

\* the instruction whose attribute field is a, whose in-word varying field
\* is v and whose cross-word varying field is x
Instr(a, v, x, fill) ==
    << [b \in Bits |-> FillBit(fill, 0, b)],
       [b \in Bits |-> IF b >= 26 /\ b <= 30 THEN FieldBit(a, b - 26)
                       ELSE FillBit(fill, 1, b)],
       [b \in Bits |-> IF b >= 26 /\ b <= 30 THEN FieldBit(v, b - 26)
                       ELSE IF b = 31 THEN FieldBit(x, 0)
                       ELSE FillBit(fill, 2, b)],
       [b \in Bits |-> IF b <= 3 THEN FieldBit(x, b + 1)
                       ELSE FillBit(fill, 3, b)] >>

\* every attribute field with a few varying fields, and every pair of
\* varying fields with one attribute field
InstrSet ==
    {Instr(a, v, x, f) : a \in FieldVals, v \in FewVals, x \in FewVals, f \in Fills}
    \cup
    {Instr(17, v, x, f) : v \in FieldVals, x \in FieldVals, f \in Fills}

\* the instructions that may follow the first one of a segment
OtherInstrs == {Instr(16, 17, 16, "even"), Instr(3, 31, 1, "odd")}

RECURSIVE SegmentsOf(_)
SegmentsOf(n) ==
    IF n = 1 THEN {<<i>> : i \in InstrSet}
    ELSE LET shorter == SegmentsOf(n - 1) IN
         shorter \cup {Append(s, o) : s \in {t \in shorter : Len(t) = n - 1},
                                      o \in OtherInstrs}

Segments == SegmentsOf(MaxInstr)

(***************************************************************************)
(* Memory and the metadata streams.  A stream is a sequence of bytes; a    *)
(* pointer into it is <<off>>, the byte offset from the start of the       *)
(* stream, and the null pointer is <<>>.  mem is the stream followed by    *)
(* whatever memory lies behind it: the parsers are handed the size of the  *)
(* stream but dereference stream + offset without comparing offset to it.  *)
(***************************************************************************)
NULL == <<>>

Ptr(off) == <<off>>

Off(p) == p[1]

\* the byte at stream + off; memory not described by mem reads as 0
Byte(mem, off) == IF off >= 0 /\ off < Len(mem) THEN mem[off + 1] ELSE 0

\* an unsigned short field (little endian)
U16(mem, off) == Byte(mem, off) + 256 * Byte(mem, off + 1)

\* an int field; an unsigned int field has the same 32 bits
S32(mem, off) ==
    LET b3 == Byte(mem, off + 3) IN
    Byte(mem, off) + 256 * Byte(mem, off + 1) + 65536 * Byte(mem, off + 2)
        + 16777216 * (IF b3 >= 128 THEN b3 - 256 ELSE b3)

\* the C string at stream + off
RECURSIVE CString(_, _)
CString(mem, off) ==
    IF Byte(mem, off) = 0 THEN <<>> ELSE <<Byte(mem, off)>> \o CString(mem, off + 1)

Max(a, b) == IF a >= b THEN a ELSE b

STREAM_TAG_STRI == 1230132307
STREAM_TAG_SUNI == 1229870419
STREAM_TAG_VUNI == 1229870422
STREAM_TAG_VINI == 1229867350
STREAM_TAG_SATT == 1414807891
STREAM_TAG_VATT == 1414807894

\* sizeof(struct stream_uniform_table_start)
SizeofUniformTableStart == 16
\* sizeof(struct stream_uniform_start), sizeof(struct stream_attribute_start)
SizeofEntryStart == 8
\* sizeof(struct stream_string)
SizeofString == 8
\* sizeof(struct stream_uniform_data)
SizeofUniformData == 20
\* sizeof(struct stream_attribute_table_start)
SizeofAttributeTableStart == 12
\* sizeof(struct stream_attribute_data)
SizeofAttributeData == 16

(***************************************************************************)
(* The chunk readers.  Each returns the pointer it stores (ptr), the       *)
(* number of bytes the caller adds to its offset (len) and the end of the  *)
(* bytes it dereferenced (hi).                                             *)
(***************************************************************************)
stream_uniform_table_start_read(mem, off) ==
    IF S32(mem, off) # STREAM_TAG_SUNI
    THEN [ptr |-> NULL, len |-> 0, hi |-> off + 4]
    ELSE [ptr |-> Ptr(off), len |-> SizeofUniformTableStart, hi |-> off + 4]

stream_uniform_start_read(mem, off) ==
    IF S32(mem, off) # STREAM_TAG_VUNI
    THEN [ptr |-> NULL, len |-> 0, hi |-> off + 4]
    ELSE [ptr |-> Ptr(off), len |-> SizeofEntryStart, hi |-> off + 4]

stream_string_read(mem, off) ==
    IF S32(mem, off) = STREAM_TAG_STRI
    THEN [ptr |-> Ptr(off), len |-> SizeofString + S32(mem, off + 4), hi |-> off + 8]
    ELSE [ptr |-> NULL, len |-> 0, hi |-> off + 4]

stream_uniform_data_read(mem, off) ==
    [ptr |-> Ptr(off), len |-> SizeofUniformData, hi |-> 0]

\* return 8 + init->size;
InitLength(mem, off) == 8 + S32(mem, off + 4)

stream_uniform_init_read(mem, off) ==
    IF S32(mem, off) # STREAM_TAG_VINI
    THEN [ptr |-> NULL, len |-> 0, hi |-> off + 4]
    ELSE [ptr |-> Ptr(off), len |-> InitLength(mem, off), hi |-> off + 8]

stream_attribute_table_start_read(mem, off) ==
    IF S32(mem, off) # STREAM_TAG_SATT
    THEN [ptr |-> NULL, len |-> 0, hi |-> off + 4]
    ELSE [ptr |-> Ptr(off), len |-> SizeofAttributeTableStart, hi |-> off + 4]

stream_attribute_start_read(mem, off) ==
    IF S32(mem, off) # STREAM_TAG_VATT
    THEN [ptr |-> NULL, len |-> 0, hi |-> off + 4]
    ELSE [ptr |-> Ptr(off), len |-> SizeofEntryStart, hi |-> off + 4]

stream_attribute_data_read(mem, off) ==
    [ptr |-> Ptr(off), len |-> SizeofAttributeData, hi |-> 0]

(***************************************************************************)
(* The table parsers.  Every calloc'ed record has an identity: 0 is the    *)
(* table, i + 1 the record of the entry at index i.  A result holds        *)
(*   table      the table returned (NULL on failure),                      *)
(*   status     "none" (nothing to parse), "ok", "corrupt", "oom", or      *)
(*              "crash" (a null record was dereferenced),                  *)
(*   allocated  the records calloc'ed during the call,                     *)
(*   freed      the records freed during the call,                         *)
(*   hi         the end of the bytes of the stream dereferenced,           *)
(*   offset     the value of offset when the call returned.                *)
(* oom names the allocation that fails, <<"none", 0>> for none.            *)
(***************************************************************************)
NoOom == <<"none", 0>>

TableId == 0

EntryId(i) == i + 1

\* the records stream_*_table_destroy frees: the entries linked into the
\* table, then the table
TableDestroy(entries) ==
    {TableId} \cup {e.id : e \in {entries[k] : k \in 1..Len(entries)}}

ParseFailure(status, entries, allocated, hi, offset) ==
    [table |-> NULL, status |-> status, allocated |-> allocated,
     freed |-> TableDestroy(entries), hi |-> hi, offset |-> offset]

\* linking at the tail, which would keep stream order: what the order
\* property has to tell apart from the code
LinkAtTail(list, entry) == list \o <<entry>>

\* uniform->next = table->uniforms; table->uniforms = uniform;
LinkAtHead(list, entry) == <<entry>> \o list

\* for (i = 0; i < table->start->count; i++) { ... } return table;
RECURSIVE UniformEntries(_, _, _, _, _, _, _)
UniformEntries(mem, oom, i, offset, uniforms, allocated, hi) ==
    IF ~(i < S32(mem, 8))
    THEN [table |-> [start |-> Ptr(0), entries |-> uniforms], status |-> "ok",
          allocated |-> allocated, freed |-> {}, hi |-> Max(hi, 12),
          offset |-> offset]
    ELSE
    IF oom = <<"entry", i>>
    THEN \* calloc returned NULL, the test is on table: uniform is dereferenced
         [table |-> NULL, status |-> "crash", allocated |-> allocated,
          freed |-> {}, hi |-> Max(hi, offset + 4), offset |-> offset]
    ELSE
    LET id    == EntryId(i)
        alloc == allocated \cup {id}
        start == stream_uniform_start_read(mem, offset)
        off1  == offset + start.len
        hi1   == Max(Max(hi, 12), start.hi)
    IN
    IF start.ptr = NULL
    THEN ParseFailure("corrupt", uniforms, alloc, hi1, off1)
    ELSE
    LET string == stream_string_read(mem, off1)
        off2   == off1 + string.len
        hi2    == Max(hi1, string.hi)
    IN
    IF string.ptr = NULL
    THEN ParseFailure("corrupt", uniforms, alloc, hi2, off2)
    ELSE
    LET data == stream_uniform_data_read(mem, off2)
        off3 == off2 + data.len
        init == stream_uniform_init_read(mem, off3)
        off4 == off3 + init.len
        hi4  == Max(hi2, init.hi)
        uniform == [id |-> id, start |-> start.ptr, string |-> string.ptr,
                    data |-> data.ptr, init |-> init.ptr]
    IN  UniformEntries(mem, oom, i + 1, off4, LinkAtHead(uniforms, uniform),
                       alloc, hi4)

NothingParsed ==
    [table |-> NULL, status |-> "none", allocated |-> {}, freed |-> {},
     hi |-> 0, offset |-> 0]

\* stream is NULL when present is FALSE
stream_uniform_table_create(mem, present, size, oom) ==
    IF ~present \/ size = 0 THEN NothingParsed
    ELSE IF oom = <<"table", 0>>
    THEN [NothingParsed EXCEPT !.status = "oom"]
    ELSE
    LET start == stream_uniform_table_start_read(mem, 0) IN
    IF start.ptr = NULL
    THEN ParseFailure("corrupt", <<>>, {TableId}, start.hi, start.len)
    ELSE UniformEntries(mem, oom, 0, start.len, <<>>, {TableId}, start.hi)

RECURSIVE AttributeEntries(_, _, _, _, _, _, _)
AttributeEntries(mem, oom, i, offset, attributes, allocated, hi) ==
    IF ~(i < S32(mem, 8))
    THEN [table |-> [start |-> Ptr(0), entries |-> attributes], status |-> "ok",
          allocated |-> allocated, freed |-> {}, hi |-> Max(hi, 12),
          offset |-> offset]
    ELSE
    IF oom = <<"entry", i>>
    THEN [table |-> NULL, status |-> "crash", allocated |-> allocated,
          freed |-> {}, hi |-> Max(hi, offset + 4), offset |-> offset]
    ELSE
    LET id    == EntryId(i)
        alloc == allocated \cup {id}
        start == stream_attribute_start_read(mem, offset)
        off1  == offset + start.len
        hi1   == Max(Max(hi, 12), start.hi)
    IN
    IF start.ptr = NULL
    THEN ParseFailure("corrupt", attributes, alloc, hi1, off1)
    ELSE
    LET string == stream_string_read(mem, off1)
        off2   == off1 + string.len
        hi2    == Max(hi1, string.hi)
    IN
    IF string.ptr = NULL
    THEN ParseFailure("corrupt", attributes, alloc, hi2, off2)
    ELSE
    LET data == stream_attribute_data_read(mem, off2)
        off3 == off2 + data.len
        \* no initializer is read: init stays the NULL calloc left
        attribute == [id |-> id, start |-> start.ptr, string |-> string.ptr,
                      data |-> data.ptr, init |-> NULL]
    IN  AttributeEntries(mem, oom, i + 1, off3, LinkAtHead(attributes, attribute),
                         alloc, hi2)

stream_attribute_table_create(mem, present, size, oom) ==
    IF ~present \/ size = 0 THEN NothingParsed
    ELSE IF oom = <<"table", 0>>
    THEN [NothingParsed EXCEPT !.status = "oom"]
    ELSE
    LET start == stream_attribute_table_start_read(mem, 0) IN
    IF start.ptr = NULL
    THEN ParseFailure("corrupt", <<>>, {TableId}, start.hi, start.len)
    ELSE AttributeEntries(mem, oom, 0, start.len, <<>>, {TableId}, start.hi)

(***************************************************************************)
(* The symbol table builders.  symbol_create and struct symbol live in     *)
(* symbols.c / symbols.h; a symbol is the record of the arguments it is    *)
(* created from, with the offset field the builders assign afterwards.     *)
(***************************************************************************)
symbol_create(name, type, size, element_count, entry_count, data, flag) ==
    [name |-> name, type |-> type, size |-> size,
     element_count |-> element_count, entry_count |-> entry_count,
     data |-> data, flag |-> flag, offset |-> 0]

\* uniform->data->element_count * uniform->data->element_size
SymbolSizeCountOnly(mem, d) == U16(mem, d + 2)

SymbolSize(mem, d) == U16(mem, d + 2) * U16(mem, d + 4)

\* init->data: the address behind tag, size and count
InitData(init) == Ptr(Off(init) + 12)

\* if (uniform->init) ... data, 1 else ... NULL, 0
SymbolInit(init) ==
    IF init # NULL THEN [data |-> InitData(init), flag |-> 1]
    ELSE [data |-> NULL, flag |-> 0]

\* symbols[i]->offset = uniform->data->offset;
UniformOffset(mem, d) == U16(mem, d + 16)

\* symbols[i]->offset = attribute->data->offset;
AttributeOffset(mem, d) == U16(mem, d + 14)

UniformSymbol(mem, uniform) ==
    LET d == Off(uniform.data)
        i == SymbolInit(uniform.init)
    IN  [symbol_create(CString(mem, Off(uniform.string) + 8), "SYMBOL_UNIFORM",
                       SymbolSize(mem, d), U16(mem, d + 2), U16(mem, d + 6),
                       i.data, i.flag)
         EXCEPT !.offset = UniformOffset(mem, d)]

AttributeSymbol(mem, attribute) ==
    LET d == Off(attribute.data)
        i == SymbolInit(attribute.init)
    IN  [symbol_create(CString(mem, Off(attribute.string) + 8), "SYMBOL_ATTRIBUTE",
                       SymbolSize(mem, d), U16(mem, d + 2), U16(mem, d + 6),
                       i.data, i.flag)
         EXCEPT !.offset = AttributeOffset(mem, d)]

Min(a, b) == IF a <= b THEN a ELSE b

\* symbols = calloc(*count, ...); the loop fills slot i from list element i
SymbolArray(count, entries, built) ==
    [i \in 1..count |-> IF i <= Len(entries) THEN built[i] ELSE NULL]

\* A result holds the array returned (NULL for none) and the values left in
\* *count and *size; ok tells a returned array from the error label.
\* count0 and size0 are *count and *size before the call.
stream_uniform_table_to_symbols(mem, table, oom, count0, size0) ==
    IF table = NULL
    THEN [symbols |-> NULL, count |-> count0, size |-> size0, ok |-> FALSE]
    ELSE
    LET count == S32(mem, Off(table.start) + 8)
        space == S32(mem, Off(table.start) + 12)
        n     == Min(count, Len(table.entries))
    IN
    IF count = 0
    THEN [symbols |-> NULL, count |-> count, size |-> space, ok |-> FALSE]
    ELSE IF count < 0 \/ oom = <<"symbols", 0>>
              \/ \E i \in 0..(n - 1) : oom = <<"symbol", i>>
    THEN \* error: the symbols created so far are destroyed
         [symbols |-> NULL, count |-> 0, size |-> 0, ok |-> FALSE]
    ELSE [symbols |-> SymbolArray(count, table.entries,
                         [i \in 1..n |-> UniformSymbol(mem, table.entries[i])]),
          count |-> count, size |-> space, ok |-> TRUE]

stream_attribute_table_to_symbols(mem, table, oom, count0) ==
    IF table = NULL
    THEN [symbols |-> NULL, count |-> count0, ok |-> FALSE]
    ELSE
    LET count == S32(mem, Off(table.start) + 8)
        n     == Min(count, Len(table.entries))
    IN
    IF count = 0
    THEN [symbols |-> NULL, count |-> count, ok |-> FALSE]
    ELSE IF count < 0 \/ oom = <<"symbols", 0>>
              \/ \E i \in 0..(n - 1) : oom = <<"symbol", i>>
    THEN [symbols |-> NULL, count |-> 0, ok |-> FALSE]
    ELSE [symbols |-> SymbolArray(count, table.entries,
                         [i \in 1..n |-> AttributeSymbol(mem, table.entries[i])]),
          count |-> count, ok |-> TRUE]

(***************************************************************************)
(* The streams the compiler hands over, laid out as the chunk table of the *)
(* interface describes them.                                               *)
(***************************************************************************)
\* entries in one table
MaxEntries == 2

LE16(n) == <<n % 256, (n \div 256) % 256>>

LE32(n) == <<n % 256, (n \div 256) % 256, (n \div 65536) % 256, (n \div 16777216) % 256>>

Zeros(n) == [k \in 1..n |-> 0]

\* a name with its terminating NUL, padded to a multiple of four bytes
PadName(name) == name \o Zeros(4 - (Len(name) % 4))

\* "STRI", size, bytes[size]
StringChunk(name) == LE32(STREAM_TAG_STRI) \o LE32(Len(PadName(name))) \o PadName(name)

\* struct stream_uniform_data
UniformDataBytes(e) ==
    <<4, 0>> \o LE16(e.element_count) \o LE16(e.element_size) \o LE16(e.entry_count)
        \o LE16(e.element_size) \o <<0, 3>> \o LE16(0) \o LE16(0) \o LE16(e.offset)
        \o LE16(65535)

\* struct stream_attribute_data
AttributeDataBytes(e) ==
    <<4, 0>> \o LE16(e.element_count) \o LE16(e.element_size) \o LE16(e.entry_count)
        \o LE16(e.element_size) \o <<0, 3>> \o LE16(0) \o LE16(e.offset)

\* "VINI", size, count, data[size]
InitChunk(data) ==
    LE32(STREAM_TAG_VINI) \o LE32(Len(data)) \o LE32(Len(data) \div 4) \o data

\* the chunks of entry e, the one at index i; defect names a chunk left out
EntryBytes(kind, e, i, defect) ==
    LET string == IF defect = <<"no_string", i>> THEN <<>> ELSE StringChunk(e.name)
        data   == IF kind = "uniform" THEN UniformDataBytes(e) ELSE AttributeDataBytes(e)
        init   == IF e.init = NULL THEN <<>> ELSE InitChunk(e.init[1])
        body   == string \o data \o init
        tag    == IF kind = "uniform" THEN STREAM_TAG_VUNI ELSE STREAM_TAG_VATT
        start  == IF defect = <<"no_entry_start", i>> THEN <<>>
                  ELSE LE32(tag) \o LE32(Len(body))
    IN  start \o body

RECURSIVE EntriesBytes(_, _, _, _)
EntriesBytes(kind, entries, i, defect) ==
    IF i >= Len(entries) THEN <<>>
    ELSE EntryBytes(kind, entries[i + 1], i, defect)
             \o EntriesBytes(kind, entries, i + 1, defect)

\* the space the uniforms of a table need
SpaceNeeded == 80

Serialize(kind, entries, defect) ==
    LET body  == EntriesBytes(kind, entries, 0, defect)
        count == IF defect = <<"overcount", 0>> THEN Len(entries) + 1 ELSE Len(entries)
        start == IF defect = <<"no_table_start", 0>> THEN <<>>
                 ELSE IF kind = "uniform"
                 THEN LE32(STREAM_TAG_SUNI) \o LE32(Len(body) + 8) \o LE32(count)
                          \o LE32(SpaceNeeded)
                 ELSE LE32(STREAM_TAG_SATT) \o LE32(Len(body) + 4) \o LE32(count)
    IN  start \o body

\* "mvp", "color", "in_vertex", "in_coord"
NameMvp == <<109, 118, 112>>
NameColor == <<99, 111, 108, 111, 114>>
NameInVertex == <<105, 110, 95, 118, 101, 114, 116, 101, 120>>
NameInCoord == <<105, 110, 95, 99, 111, 111, 114, 100>>

\* an entry without initializer has init = NULL, one with the initializer
\* data d has init = <<d>>
NoInit == NULL

EmptyInit == << <<>> >>

FloatsInit == << <<0, 0, 128, 63, 0, 0, 0, 0, 0, 0, 0, 63, 0, 0, 128, 63>> >>

Inits == {NoInit, EmptyInit, FloatsInit}

\* uniform mat4 mvp: 16 elements of 4 bytes
Mvp(init) ==
    [name |-> NameMvp, element_count |-> 16, element_size |-> 4,
     entry_count |-> 1, offset |-> 0, init |-> init]

\* uniform vec4 color: 4 elements of 4 bytes
Color(init) ==
    [name |-> NameColor, element_count |-> 4, element_size |-> 4,
     entry_count |-> 0, offset |-> 64, init |-> init]

\* attribute vec4 in_vertex
InVertex(init) ==
    [name |-> NameInVertex, element_count |-> 4, element_size |-> 4,
     entry_count |-> 1, offset |-> 0, init |-> init]

\* attribute vec2 in_coord
InCoord(init) ==
    [name |-> NameInCoord, element_count |-> 2, element_size |-> 4,
     entry_count |-> 0, offset |-> 16, init |-> init]

EntryKinds(kind) ==
    IF kind = "uniform"
    THEN {Mvp(i) : i \in Inits} \cup {Color(i) : i \in Inits}
    ELSE {InVertex(i) : i \in Inits} \cup {InCoord(i) : i \in Inits}

RECURSIVE EntryLists(_, _)
EntryLists(kind, n) ==
    IF n = 0 THEN {<<>>}
    ELSE LET shorter == EntryLists(kind, n - 1) IN
         shorter \cup {Append(l, e) : l \in {t \in shorter : Len(t) = n - 1},
                                      e \in EntryKinds(kind)}

NoDefect == <<"none", 0>>

Defects(entries) ==
    {NoDefect, <<"no_table_start", 0>>, <<"overcount", 0>>}
    \cup {<<"no_entry_start", i>> : i \in 0..(Len(entries) - 1)}
    \cup {<<"no_string", i>> : i \in 0..(Len(entries) - 1)}

\* what lies behind the stream in memory: nothing the parsers recognise, an
\* initializer chunk, or the chunks of one more entry
TailEntry(kind) == IF kind = "uniform" THEN Mvp(NoInit) ELSE InVertex(NoInit)

Tails(kind) == {<<>>, InitChunk(<<>>), EntryBytes(kind, TailEntry(kind), 0, NoDefect)}

Ooms(entries) ==
    {NoOom, <<"table", 0>>, <<"symbols", 0>>}
    \cup {<<"entry", i>> : i \in 0..(Len(entries) - 1)}
    \cup {<<"symbol", i>> : i \in 0..(Len(entries) - 1)}

Input(kind, entries, defect, tail, oom) ==
    LET stream == Serialize(kind, entries, defect) IN
    [kind |-> kind, entries |-> entries, defect |-> defect, present |-> TRUE,
     stream |-> stream, size |-> Len(stream), tail |-> tail, oom |-> oom]

\* a stream pointer that is NULL, and a stream of size 0
NoStreamInputs(kind) ==
    {[kind |-> kind, entries |-> <<>>, defect |-> NoDefect, present |-> p,
      stream |-> <<>>, size |-> 0, tail |-> t, oom |-> NoOom]
        : p \in BOOLEAN, t \in Tails(kind)}

ParseInputsOf(kind) ==
    UNION {
        {Input(kind, l, d, t, NoOom) : d \in Defects(l), t \in Tails(kind)}
        \cup {Input(kind, l, NoDefect, <<>>, o) : o \in Ooms(l)}
        \cup NoStreamInputs(kind)
      : l \in EntryLists(kind, MaxEntries)}

ParseInputs == ParseInputsOf("uniform") \cup ParseInputsOf("attribute")

Mem(i) == i.stream \o i.tail

(***************************************************************************)
(* One table parsed and turned into symbols, as the attach functions do.   *)
(***************************************************************************)
NotCalled == [symbols |-> NULL, count |-> 0, size |-> 0, ok |-> FALSE]

\* the variables of the parsers while another part of the program runs
ParseIdle ==
    /\ inp = [kind |-> "none"]
    /\ phase = "idle"
    /\ out = [create |-> NothingParsed, sym |-> NotCalled]

\* the variables of the patch passes while another part of the program runs
PatchIdle ==
    /\ hist = <<>>
    /\ ops = <<>>

\* the variables of the attach functions while another part runs
AttachIdle ==
    /\ state = <<>>
    /\ call = <<>>
    /\ ncalls = 0

ParseInit ==
    /\ inp \in ParseInputs
    /\ phase = "ready"
    /\ out = [create |-> NothingParsed, sym |-> NotCalled]
    /\ PatchIdle
    /\ AttachIdle

UniformTableParse ==
    /\ phase = "ready" /\ inp.kind = "uniform"
    /\ LET table == stream_uniform_table_create(Mem(inp), inp.present, inp.size,
                                                inp.oom)
       IN  out' = [create |-> table,
                   sym |-> IF table.table # NULL
                           THEN stream_uniform_table_to_symbols(
                                    Mem(inp), table.table, inp.oom, 0, 0)
                           ELSE NotCalled]
    /\ phase' = "done"
    /\ UNCHANGED <<inp, patchVars, attachVars>>

AttributeTableParse ==
    /\ phase = "ready" /\ inp.kind = "attribute"
    /\ LET table == stream_attribute_table_create(Mem(inp), inp.present, inp.size,
                                                  inp.oom)
           built == stream_attribute_table_to_symbols(Mem(inp), table.table,
                                                      inp.oom, 0)
       IN  out' = [create |-> table,
                   sym |-> IF table.table # NULL
                           THEN [symbols |-> built.symbols, count |-> built.count,
                                 size |-> 0, ok |-> built.ok]
                           ELSE NotCalled]
    /\ phase' = "done"
    /\ UNCHANGED <<inp, patchVars, attachVars>>

ParseNext == UniformTableParse \/ AttributeTableParse

SpecParse == ParseInit /\ [][ParseNext]_vars

(***************************************************************************)
(* vertex_shader_attach and fragment_shader_attach.  state is the          *)
(* premali_state the caller owns; call describes the last attach: the      *)
(* function, whether the compiler produced a binary, the binary, the value *)
(* returned, the steps of the pipeline run in order, and the segment       *)
(* handed to the command-stream builder.  The allocations of the parsers   *)
(* and builders are taken to succeed here.                                 *)
(***************************************************************************)
\* attach calls in one run
MaxAttach == 2

NullStream ==
    [kind |-> "none", entries |-> <<>>, defect |-> NoDefect, present |-> FALSE,
     stream |-> <<>>, size |-> 0, tail |-> <<>>, oom |-> NoOom]

\* the uniform streams a binary may carry
AttachUniformStreams ==
    {NullStream,
     Input("uniform", <<Mvp(NoInit)>>, NoDefect, <<>>, NoOom),
     Input("uniform", <<Mvp(NoInit), Color(FloatsInit)>>, NoDefect, <<>>, NoOom),
     Input("uniform", <<Mvp(NoInit), Color(NoInit)>>, <<"no_string", 1>>, <<>>, NoOom),
     Input("uniform", <<Color(NoInit)>>, <<"no_table_start", 0>>, <<>>, NoOom)}

\* the attribute streams a vertex binary may carry
AttachAttributeStreams ==
    {NullStream,
     Input("attribute", <<InVertex(NoInit), InCoord(NoInit)>>, NoDefect, <<>>, NoOom),
     Input("attribute", <<InVertex(NoInit)>>, <<"no_entry_start", 0>>, <<>>, NoOom)}

\* the machine code a binary may carry
AttachSegments ==
    {<<Instr(16, 17, 16, "even")>>,
     <<Instr(17, 16, 17, "odd"), Instr(3, 31, 1, "even")>>}

VertexBinaries ==
    [uniform : AttachUniformStreams, attribute : AttachAttributeStreams,
     shader : AttachSegments]

FragmentBinaries ==
    [uniform : AttachUniformStreams, attribute : {NullStream},
     shader : AttachSegments]

NoBinary == [uniform |-> NullStream, attribute |-> NullStream, shader |-> <<>>]

\* binary->shader_size, in bytes
ShaderSize(binary) == 16 * Len(binary.shader)

AttachInit ==
    /\ state = [vertex_uniforms |-> NULL, vertex_uniform_count |-> 0,
                vertex_uniform_size |-> 0,
                vertex_attributes |-> NULL, vertex_attribute_count |-> 0,
                fragment_uniforms |-> NULL, fragment_uniform_count |-> 0,
                fragment_uniform_size |-> 0]
    /\ call = [fn |-> "none", compiled |-> FALSE, binary |-> NoBinary, ret |-> 0,
               steps |-> <<>>, handed |-> <<>>, size |-> 0]
    /\ ncalls = 0
    /\ ParseIdle
    /\ PatchIdle

\* binary = premali_shader_compile(...); if (!binary) return -1;
CompileFails(fn) ==
    /\ ncalls < MaxAttach
    /\ call' = [fn |-> fn, compiled |-> FALSE, binary |-> NoBinary, ret |-> 0 - 1,
                steps |-> <<"compile">>, handed |-> <<>>, size |-> 0]
    /\ ncalls' = ncalls + 1
    /\ UNCHANGED <<state, parseVars, patchVars>>

\* the uniform part of both attach functions: the table, and when there is
\* one, the symbols, count and size it leaves in the caller's state
AttachUniforms(binary, count0, size0) ==
    LET u     == binary.uniform
        table == stream_uniform_table_create(Mem(u), u.present, u.size, NoOom)
        syms  == stream_uniform_table_to_symbols(Mem(u), table.table, NoOom,
                                                 count0, size0)
    IN  [table |-> table.table, syms |-> syms,
         steps |-> <<"uniform_table_create">> \o
                   (IF table.table # NULL
                    THEN <<"uniform_table_to_symbols", "uniform_table_destroy">>
                    ELSE <<>>)]

AttachAttributes(binary, count0) ==
    LET a     == binary.attribute
        table == stream_attribute_table_create(Mem(a), a.present, a.size, NoOom)
        syms  == stream_attribute_table_to_symbols(Mem(a), table.table, NoOom,
                                                   count0)
    IN  [table |-> table.table, syms |-> syms,
         steps |-> <<"attribute_table_create">> \o
                   (IF table.table # NULL
                    THEN <<"attribute_table_to_symbols", "attribute_table_destroy">>
                    ELSE <<>>)]

\* vertex_shader_attach with the hand-off moved in front of the varying
\* pass: what the ordering property has to tell apart from the code
vertex_shader_attach_hand_off_early(binary) ==
    LET u == AttachUniforms(binary, state.vertex_uniform_count,
                            state.vertex_uniform_size)
        a == AttachAttributes(binary, state.vertex_attribute_count)
        shader == vertex_shader_attributes_patch(binary.shader)
        size   == ShaderSize(binary) \div 16
    IN
    /\ state' = [state EXCEPT
                   !.vertex_uniforms = IF u.table # NULL THEN u.syms.symbols ELSE @,
                   !.vertex_uniform_count = u.syms.count,
                   !.vertex_uniform_size = u.syms.size,
                   !.vertex_attributes = IF a.table # NULL THEN a.syms.symbols ELSE @,
                   !.vertex_attribute_count = a.syms.count]
    /\ call' = [fn |-> "vertex", compiled |-> TRUE, binary |-> binary, ret |-> 0,
                steps |-> <<"compile">> \o u.steps \o a.steps \o
                          <<"attributes_patch", "vs_info_attach_shader",
                            "varyings_patch">>,
                handed |-> shader, size |-> size]

vertex_shader_attach(binary) ==
    LET u == AttachUniforms(binary, state.vertex_uniform_count,
                            state.vertex_uniform_size)
        a == AttachAttributes(binary, state.vertex_attribute_count)
        shader == vertex_shader_varyings_patch(
                      vertex_shader_attributes_patch(binary.shader))
        size   == ShaderSize(binary) \div 16
    IN
    /\ state' = [state EXCEPT
                   !.vertex_uniforms = IF u.table # NULL THEN u.syms.symbols ELSE @,
                   !.vertex_uniform_count = u.syms.count,
                   !.vertex_uniform_size = u.syms.size,
                   !.vertex_attributes = IF a.table # NULL THEN a.syms.symbols ELSE @,
                   !.vertex_attribute_count = a.syms.count]
    /\ call' = [fn |-> "vertex", compiled |-> TRUE, binary |-> binary, ret |-> 0,
                steps |-> <<"compile">> \o u.steps \o a.steps \o
                          <<"attributes_patch", "varyings_patch",
                            "vs_info_attach_shader">>,
                handed |-> shader, size |-> size]

fragment_shader_attach(binary) ==
    LET u == AttachUniforms(binary, state.fragment_uniform_count,
                            state.fragment_uniform_size)
        size == ShaderSize(binary) \div 4
    IN
    /\ state' = [state EXCEPT
                   !.fragment_uniforms = IF u.table # NULL THEN u.syms.symbols ELSE @,
                   !.fragment_uniform_count = u.syms.count,
                   !.fragment_uniform_size = u.syms.size]
    /\ call' = [fn |-> "fragment", compiled |-> TRUE, binary |-> binary, ret |-> 0,
                steps |-> <<"compile">> \o u.steps \o <<"plbu_info_attach_shader">>,
                handed |-> binary.shader, size |-> size]

VertexShaderAttach ==
    \/ CompileFails("vertex")
    \/ /\ ncalls < MaxAttach
       /\ \E binary \in VertexBinaries : vertex_shader_attach(binary)
       /\ ncalls' = ncalls + 1
       /\ UNCHANGED <<parseVars, patchVars>>

FragmentShaderAttach ==
    \/ CompileFails("fragment")
    \/ /\ ncalls < MaxAttach
       /\ \E binary \in FragmentBinaries : fragment_shader_attach(binary)
       /\ ncalls' = ncalls + 1
       /\ UNCHANGED <<parseVars, patchVars>>

Next == VertexShaderAttach \/ FragmentShaderAttach

Spec == AttachInit /\ [][Next]_vars

(***************************************************************************)
(* The patch passes as a state machine: hist holds the segment as it was   *)
(* handed over and after every pass, ops the passes applied so far.        *)
(***************************************************************************)
Shader == hist[Len(hist)]

PatchInit ==
    /\ hist \in {<<s>> : s \in Segments}
    /\ ops = <<>>
    /\ ParseIdle
    /\ AttachIdle

AttributesPatch ==
    /\ Len(ops) < MaxPasses
    /\ hist' = Append(hist, vertex_shader_attributes_patch(Shader))
    /\ ops' = Append(ops, "attributes")
    /\ UNCHANGED <<parseVars, attachVars>>

VaryingsPatch ==
    /\ Len(ops) < MaxPasses
    /\ hist' = Append(hist, vertex_shader_varyings_patch(Shader))
    /\ ops' = Append(ops, "varyings")
    /\ UNCHANGED <<parseVars, attachVars>>

PatchNext == AttributesPatch \/ VaryingsPatch

SpecPatch == PatchInit /\ [][PatchNext]_vars

(***************************************************************************)
(* Reading the slot fields of an instruction, for the properties below.    *)
(***************************************************************************)
\* the 5-bit field in bits lo..lo+4 of word w, as a number
FieldOf(w, lo) ==
    w[lo] + 2 * w[lo + 1] + 4 * w[lo + 2] + 8 * w[lo + 3] + 16 * w[lo + 4]

AttributeField(ins) == FieldOf(ins[2], 26)

VaryingField(ins) == FieldOf(ins[3], 26)

\* slot bit 0 in bit 31 of the third word, slot bits 1..3 and the presence
\* flag in bits 0..3 of the fourth word
VaryingCrossField(ins) ==
    ins[3][31] + 2 * ins[4][0] + 4 * ins[4][1] + 8 * ins[4][2] + 16 * ins[4][3]

\* the one-step mapping table on a field: absent fields stay, a present
\* slot 0 becomes a present slot 1, a present non-zero slot a present slot 0
OneStep(f) == IF f < 16 THEN f ELSE IF f = 16 THEN 17 ELSE 16

\* the passes applied so far, by position in ops
PassesOf(name) == {k \in 1..Len(ops) : ops[k] = name}

\* positions k such that passes k and k+1 are both the pass called name
TwiceOf(name) == {k \in 1..(Len(ops) - 1) : ops[k] = name /\ ops[k + 1] = name}

\* C1: one attribute pass maps a present slot 0 to a present slot 1 and
\* every present non-zero slot to a present slot 0, in every instruction of
\* the segment, whatever the other instructions hold.
C1_AttributeOneStep ==
    \A k \in PassesOf("attributes") : \A i \in 1..Len(hist[k]) :
        LET before == AttributeField(hist[k][i])
            after  == AttributeField(hist[k + 1][i])
        IN  before >= 16 =>
                /\ after >= 16
                /\ (before = 16 => after = 17)
                /\ (before > 16 => after = 16)

C1_Witness ==
    /\ Len(ops) >= 1 /\ ops[1] = "attributes"
    /\ Len(hist[1]) = 2
    /\ AttributeField(hist[1][1]) = 21 /\ AttributeField(hist[2][1]) = 16
    /\ AttributeField(hist[1][2]) = 16 /\ AttributeField(hist[2][2]) = 17

\* C2: an attribute pass leaves every instruction whose presence flag is
\* unset bit-identical in all four words.
C2_AttributeAbsentUntouched ==
    \A k \in PassesOf("attributes") : \A i \in 1..Len(hist[k]) :
        AttributeField(hist[k][i]) < 16 => hist[k + 1][i] = hist[k][i]

C2_Witness ==
    /\ Len(ops) >= 1 /\ ops[1] = "attributes"
    /\ Len(hist[1]) = 2
    /\ AttributeField(hist[1][1]) = 5
    /\ hist[1][1][1][0] = 1
    /\ hist[2][1] = hist[1][1]
    /\ hist[2][2] # hist[1][2]

\* the bits of word w of an instruction that hold a varying slot
VaryingSlotBit(w, b) ==
    \/ w = 3 /\ (b = 31 \/ (b >= 26 /\ b <= 29))
    \/ w = 4 /\ b <= 2

\* C3: one varying pass applies the one-step table to the in-word field
\* and to the cross-word field independently, and changes no other bit of
\* the instruction.
C3_VaryingOneStep ==
    \A k \in PassesOf("varyings") : \A i \in 1..Len(hist[k]) :
        LET old == hist[k][i]
            new == hist[k + 1][i]
        IN  /\ VaryingField(new) = OneStep(VaryingField(old))
            /\ VaryingCrossField(new) = OneStep(VaryingCrossField(old))
            /\ \A w \in 1..4 : \A b \in Bits :
                   ~VaryingSlotBit(w, b) => new[w][b] = old[w][b]

C3_Witness ==
    /\ Len(ops) >= 1 /\ ops[1] = "varyings"
    /\ VaryingCrossField(hist[1][1]) = 17 /\ VaryingCrossField(hist[2][1]) = 16
    /\ VaryingField(hist[1][1]) = 16 /\ VaryingField(hist[2][1]) = 17
    /\ hist[1][1][3][0] = 1

\* C4 as stated: two successive passes of the same kind over a present
\* slot 1 end with slot 0.
C4_TwiceGivesSlotZero ==
    /\ \A k \in TwiceOf("attributes") : \A i \in 1..Len(hist[k]) :
           AttributeField(hist[k][i]) = 17 => AttributeField(hist[k + 2][i]) = 16
    /\ \A k \in TwiceOf("varyings") : \A i \in 1..Len(hist[k]) :
           /\ VaryingField(hist[k][i]) = 17 => VaryingField(hist[k + 2][i]) = 16
           /\ VaryingCrossField(hist[k][i]) = 17 =>
                  VaryingCrossField(hist[k + 2][i]) = 16

\* C4 amended: two successive passes of the same kind over a present slot 1
\* give slot 0 after the first pass and slot 1 again after the second, so
\* the second pass undoes the first instead of repeating it.
C4_TwiceGivesSlotOne ==
    /\ \A k \in TwiceOf("attributes") : \A i \in 1..Len(hist[k]) :
           AttributeField(hist[k][i]) = 17 =>
               /\ AttributeField(hist[k + 1][i]) = 16
               /\ AttributeField(hist[k + 2][i]) = 17
    /\ \A k \in TwiceOf("varyings") : \A i \in 1..Len(hist[k]) :
           /\ VaryingField(hist[k][i]) = 17 =>
                  /\ VaryingField(hist[k + 1][i]) = 16
                  /\ VaryingField(hist[k + 2][i]) = 17
           /\ VaryingCrossField(hist[k][i]) = 17 =>
                  /\ VaryingCrossField(hist[k + 1][i]) = 16
                  /\ VaryingCrossField(hist[k + 2][i]) = 17

C4_Witness ==
    /\ ops = <<"attributes", "attributes">>
    /\ AttributeField(hist[1][1]) = 17
    /\ AttributeField(hist[2][1]) = 16
    /\ AttributeField(hist[3][1]) = 17

(***************************************************************************)
(* Reading the inputs and results of the parsers, for the properties       *)
(* below.                                                                  *)
(***************************************************************************)
\* n bytes of memory from offset off
BytesAt(mem, off, n) == [k \in 1..n |-> Byte(mem, off + k - 1)]

\* a stream serialized without a defect, handed over with its size, parsed
\* with every allocation succeeding
ValidInput(i) == i.present /\ i.size > 0 /\ i.defect = NoDefect /\ i.oom = NoOom

\* a stream that lacks a required table-start, entry-start or name chunk
CorruptInput(i) ==
    /\ i.present /\ i.size > 0
    /\ i.defect[1] \in {"no_table_start", "no_entry_start", "no_string"}

\* the symbol sym of a stream in memory mem carries what entry e was
\* serialized from
SymbolOfEntry(mem, sym, e) ==
    /\ sym # NULL
    /\ sym.name = e.name
    /\ sym.element_count = e.element_count
    /\ sym.size = e.element_count * e.element_size
    /\ sym.entry_count = e.entry_count
    /\ sym.offset = e.offset
    /\ (sym.flag = 1) = (e.init # NoInit)
    /\ (e.init = NoInit) = (sym.data = NULL)
    /\ e.init # NoInit =>
           BytesAt(mem, Off(sym.data), Len(e.init[1])) = e.init[1]

Bijections(n) == {f \in [1..n -> 1..n] : \A a, b \in 1..n : f[a] = f[b] => a = b}

\* C5: a uniform stream serialized in the documented layout parses, and
\* the symbols built from it are the serialized entries: as many, and one
\* symbol per entry with its name, element count, byte size, entry count,
\* offset and initializer.  Stated for the streams behind which memory
\* holds nothing a parser recognises, so that no read behind the end of the
\* stream decides it.
C5_UniformRoundTrip ==
    (phase = "done" /\ inp.kind = "uniform" /\ ValidInput(inp) /\ inp.tail = <<>>) =>
        LET n == Len(inp.entries) IN
        /\ out.create.status = "ok"
        /\ out.sym.count = n
        /\ n > 0 =>
               /\ out.sym.ok
               /\ Len(out.sym.symbols) = n
               /\ \E f \in Bijections(n) : \A k \in 1..n :
                      SymbolOfEntry(Mem(inp), out.sym.symbols[f[k]], inp.entries[k])

\* C7: a table parser that finds its stream corrupt returns no table and
\* has freed every record it allocated.
C7_CorruptFreesAll ==
    (phase = "done" /\ out.create.status = "corrupt") =>
        /\ out.create.table = NULL
        /\ out.create.allocated \subseteq out.create.freed

\* C8: a table parser dereferences nothing behind the first size bytes of
\* its stream, and rejects a stream whose declared count needs entries the
\* stream does not hold.
C8_ReadsInsideStream ==
    phase = "done" =>
        /\ out.create.hi <= inp.size
        /\ inp.defect = <<"overcount", 0>> => out.create.status = "corrupt"

\* the offset at which entry j (counted from 0) starts in the stream of i
EntryOffset(i, j) == Len(Serialize(i.kind, SubSeq(i.entries, 1, j), NoDefect))

\* the entries a successful parse can have read: those of the stream and,
\* when the table declares one more, the entry lying behind the stream
SourceEntries(i) ==
    IF i.defect = <<"overcount", 0>> THEN Append(i.entries, TailEntry(i.kind))
    ELSE i.entries

\* C10: a symbol array that is returned has as many symbols as the table
\* declares, none missing; the symbol in slot k is built from raw entry k of
\* the table: byte size element_count * element_size, the entry's name,
\* element count, entry count and offset, and the initializer data with
\* the flag set exactly when the raw entry has an initializer.
C10_SymbolsFromEntries ==
    (phase = "done" /\ out.sym.ok) =>
        LET src  == SourceEntries(inp)
            raw  == out.create.table.entries
            syms == out.sym.symbols
        IN  /\ inp.defect \in {NoDefect, <<"overcount", 0>>}
            /\ Len(syms) = Len(src)
            /\ \A k \in 1..Len(syms) :
                   /\ syms[k] # NULL
                   /\ \E j \in 1..Len(src) :
                          /\ EntryOffset(inp, j - 1) = Off(raw[k].start)
                          /\ syms[k].name = src[j].name
                          /\ syms[k].size = src[j].element_count * src[j].element_size
                          /\ syms[k].element_count = src[j].element_count
                          /\ syms[k].entry_count = src[j].entry_count
                          /\ syms[k].offset = src[j].offset
                   /\ (syms[k].flag = 1) = (raw[k].init # NULL)
                   /\ (syms[k].data # NULL) = (raw[k].init # NULL)
                   /\ raw[k].init # NULL => Off(syms[k].data) = Off(raw[k].init) + 12

C10_Witness ==
    /\ phase = "done" /\ inp.kind = "uniform" /\ out.sym.ok
    /\ Len(out.sym.symbols) = 2
    /\ out.sym.symbols[1].size = 16 /\ out.sym.symbols[1].flag = 1
    /\ BytesAt(Mem(inp), Off(out.sym.symbols[1].data), 16) = FloatsInit[1]
    /\ out.sym.symbols[2].size = 64 /\ out.sym.symbols[2].flag = 0

(***************************************************************************)
(* Reading the last attach call.                                           *)
(***************************************************************************)
StepsOf(c) == {c.steps[k] : k \in 1..Len(c.steps)}

PatchAndHandOff ==
    {"attributes_patch", "varyings_patch", "vs_info_attach_shader",
     "plbu_info_attach_shader"}

AttributeSteps ==
    {"attribute_table_create", "attribute_table_to_symbols",
     "attribute_table_destroy"}

\* C6: an attach whose compiler fails, or whose uniform stream (or, for
\* the vertex stage, attribute stream) is corrupt, returns a failure and
\* runs none of the later steps of the pipeline.
C6_FailureAborts ==
    /\ (call.fn # "none" /\ ~call.compiled) =>
           call.ret < 0 /\ call.steps = <<"compile">>
    /\ (call.fn # "none" /\ call.compiled /\ CorruptInput(call.binary.uniform)) =>
           /\ call.ret < 0
           /\ StepsOf(call) \cap (PatchAndHandOff \cup AttributeSteps) = {}
    /\ (call.fn = "vertex" /\ call.compiled /\ CorruptInput(call.binary.attribute)) =>
           /\ call.ret < 0
           /\ StepsOf(call) \cap PatchAndHandOff = {}

\* C9: after an attach whose uniform stream has an entry start without a
\* name string, the stage has no uniform symbols and its uniform count and
\* size are zero.
C9_MissingNameLeavesNothing ==
    /\ (call.fn = "vertex" /\ call.compiled
            /\ call.binary.uniform.defect[1] = "no_string") =>
           /\ state.vertex_uniforms = NULL
           /\ state.vertex_uniform_count = 0
           /\ state.vertex_uniform_size = 0
    /\ (call.fn = "fragment" /\ call.compiled
            /\ call.binary.uniform.defect[1] = "no_string") =>
           /\ state.fragment_uniforms = NULL
           /\ state.fragment_uniform_count = 0
           /\ state.fragment_uniform_size = 0


\* the positions of step s in the steps of attach call c
StepPositions(c, s) == {k \in 1..Len(c.steps) : c.steps[k] = s}

\* C11: a vertex attach that returns 0 has run the attribute pass, then
\* the varying pass, then the hand-off, the hand-off once and over every
\* instruction of the segment, and the instructions handed off are those
\* of the compiler with the one-step table applied to the attribute field
\* and to both varying fields; a fragment attach that returns 0 has run no
\* patch pass and no attribute step, and hands off, once, the segment of
\* the compiler bit for bit.
C11_PatchedBeforeHandOff ==
    /\ (call.fn = "vertex" /\ call.compiled /\ call.ret = 0) =>
           /\ Cardinality(StepPositions(call, "vs_info_attach_shader")) = 1
           /\ Cardinality(StepPositions(call, "attributes_patch")) = 1
           /\ Cardinality(StepPositions(call, "varyings_patch")) = 1
           /\ StepPositions(call, "plbu_info_attach_shader") = {}
           /\ \A a \in StepPositions(call, "attributes_patch") :
              \A v \in StepPositions(call, "varyings_patch") :
              \A h \in StepPositions(call, "vs_info_attach_shader") :
                  a < v /\ v < h
           /\ call.size = Len(call.binary.shader)
           /\ Len(call.handed) = Len(call.binary.shader)
           /\ \A i \in 1..Len(call.handed) :
                  LET old == call.binary.shader[i]
                      new == call.handed[i]
                  IN  /\ AttributeField(new) = OneStep(AttributeField(old))
                      /\ VaryingField(new) = OneStep(VaryingField(old))
                      /\ VaryingCrossField(new) = OneStep(VaryingCrossField(old))
    /\ (call.fn = "fragment" /\ call.compiled /\ call.ret = 0) =>
           /\ Cardinality(StepPositions(call, "plbu_info_attach_shader")) = 1
           /\ StepsOf(call) \cap (AttributeSteps \cup
                  {"attributes_patch", "varyings_patch",
                   "vs_info_attach_shader"}) = {}
           /\ call.handed = call.binary.shader
           /\ call.size = 4 * Len(call.binary.shader)

\* a vertex attach has handed off a two-instruction segment in which every
\* slot field of the first instruction was remapped
C11_Witness ==
    /\ call.fn = "vertex" /\ call.ret = 0
    /\ Len(call.binary.shader) = 2
    /\ AttributeField(call.binary.shader[1]) = 17
    /\ AttributeField(call.handed[1]) = 16
    /\ VaryingField(call.binary.shader[1]) = 16
    /\ VaryingField(call.handed[1]) = 17
    /\ VaryingCrossField(call.handed[1]) = 16
    /\ call.steps[Len(call.steps)] = "vs_info_attach_shader"


\* C12: the symbols of a parsed stream are its entries in reverse: with n
\* entries read, the symbol at array index i (slot i + 1 here) is built from
\* the entry read (n-1-i)-th, found at that entry's offset in the stream,
\* and carries its name, counts, size and offset.
C12_SymbolsReverseStream ==
    (phase = "done" /\ out.sym.ok) =>
        LET src  == SourceEntries(inp)
            raw  == out.create.table.entries
            syms == out.sym.symbols
            n    == Len(src)
        IN  /\ Len(syms) = n
            /\ \A k \in 1..n :
                   LET e == src[n + 1 - k] IN
                   /\ Off(raw[k].start) = EntryOffset(inp, n - k)
                   /\ syms[k].name = e.name
                   /\ syms[k].element_count = e.element_count
                   /\ syms[k].size = e.element_count * e.element_size
                   /\ syms[k].entry_count = e.entry_count
                   /\ syms[k].offset = e.offset

\* an attribute stream of in_vertex, then in_coord, has given the symbols
\* in_coord, then in_vertex
C12_Witness ==
    /\ phase = "done" /\ inp.kind = "attribute" /\ out.sym.ok
    /\ Len(inp.entries) = 2
    /\ inp.entries[1].name = NameInVertex /\ inp.entries[2].name = NameInCoord
    /\ Len(out.sym.symbols) = 2
    /\ out.sym.symbols[1].name = NameInCoord /\ out.sym.symbols[1].offset = 16
    /\ out.sym.symbols[2].name = NameInVertex /\ out.sym.symbols[2].offset = 0


\* C13: an attribute stream in the documented layout whose entries carry
\* VINI chunks parses, the cursor ends behind the last chunk, every entry
\* is found, and the symbol of each entry carries the entry's initializer.
\* Stated for the streams behind which memory holds nothing a parser
\* recognises.
C13_AttributeInitConsumed ==
    (/\ phase = "done" /\ inp.kind = "attribute"
     /\ ValidInput(inp) /\ inp.tail = <<>>
     /\ \E k \in 1..Len(inp.entries) : inp.entries[k].init # NoInit) =>
        LET n == Len(inp.entries) IN
        /\ out.create.status = "ok"
        /\ out.create.offset = inp.size
        /\ out.sym.ok
        /\ Len(out.sym.symbols) = n
        /\ \A k \in 1..n :
               SymbolOfEntry(Mem(inp), out.sym.symbols[n + 1 - k], inp.entries[k])

====
